---- MODULE Spec2Model ----
(***************************************************************************)
(* Model of src/app.py (Analisador PTF - RJAIA): text extraction with      *)
(* position markers, chunking under a character budget, repair and parse   *)
(* of the model's JSON answer, the per-chunk analysis loop, and the        *)
(* regeneration of the corrected document.                                 *)
(*                                                                         *)
(* A Python str is a sequence of one-character strings: "ab" is            *)
(* <<"a", "b">>, and "" is <<>>.                                           *)
(***************************************************************************)
EXTENDS Integers, Sequences, FiniteSets, TLC

VARIABLES
    \* split_text_into_chunks called on its own (src/app.py:52-66)
    c_text, c_max_chars, c_chunks, c_pc,
    \* repair_json and the per-chunk parse path on their own (68-79, 296-307)
    r_raw, json_str, r_repairs, r_data, r_pc,
    \* read_docx, one paragraph of the loop at a time (41-50)
    d_i, d_text, d_last,
    \* generate_corrected_docx (124-179)
    g_original_text, g_errors, g_doc, g_pc,
    \* the "Iniciar Analise" click (264-320)
    pc, uploaded_file, full_text, chunks, i, master_results,
    calls, raw_resps, progress, session_state

chunkVars  == <<c_text, c_max_chars, c_chunks, c_pc>>
repairVars == <<r_raw, json_str, r_repairs, r_data, r_pc>>
docxVars   == <<d_i, d_text, d_last>>
reconVars  == <<g_original_text, g_errors, g_doc, g_pc>>
runVars    == <<pc, uploaded_file, full_text, chunks, i, master_results,
                calls, raw_resps, progress, session_state>>
vars == <<chunkVars, repairVars, docxVars, reconVars, runVars>>

-----------------------------------------------------------------------------
(* Python str operations *)

NL == "\n"

\* Characters str.strip() and the regex class \s treat as whitespace.
Whitespace == {" ", "\n", "\t", "\r"}

\* All sequences over alphabet of length 0..n.
SeqsUpTo(alphabet, n) == UNION {[1..k -> alphabet] : k \in 0..n}

\* n copies of character ch.
Line(ch, n) == [k \in 1..n |-> ch]

RECURSIVE Concat(_)
\* "".join(parts)
Concat(parts) ==
    IF parts = <<>> THEN <<>> ELSE Head(parts) \o Concat(Tail(parts))

\* s.startswith(p)
StartsWith(s, p) == Len(p) <= Len(s) /\ SubSeq(s, 1, Len(p)) = p

\* s.endswith(p)
EndsWith(s, p) ==
    Len(p) <= Len(s) /\ SubSeq(s, Len(s) - Len(p) + 1, Len(s)) = p

\* s[k:].startswith(p), k a 1-based position
MatchAt(s, k, p) ==
    k + Len(p) - 1 <= Len(s) /\ SubSeq(s, k, k + Len(p) - 1) = p

\* p in s
Contains(s, p) == \E k \in 1..(Len(s) + 1) : MatchAt(s, k, p)

\* s.count(ch) for a one-character ch
Count(s, ch) == Cardinality({k \in 1..Len(s) : s[k] = ch})

\* s.lstrip()
LStrip(s) ==
    IF \A k \in 1..Len(s) : s[k] \in Whitespace THEN <<>>
    ELSE LET f == CHOOSE k \in 1..Len(s) :
                     /\ s[k] \notin Whitespace
                     /\ \A j \in 1..(k - 1) : s[j] \in Whitespace
         IN  SubSeq(s, f, Len(s))

\* s.rstrip(chars): drops the trailing run of characters of the set
RStripSet(s, set) ==
    IF \A k \in 1..Len(s) : s[k] \in set THEN <<>>
    ELSE LET l == CHOOSE k \in 1..Len(s) :
                     /\ s[k] \notin set
                     /\ \A j \in (k + 1)..Len(s) : s[j] \in set
         IN  SubSeq(s, 1, l)

\* s.rstrip()
RStrip(s) == RStripSet(s, Whitespace)

\* s.strip()
Strip(s) == LStrip(RStrip(s))

RECURSIVE SplitFrom(_, _, _)
\* The pieces of s[start:] between the occurrences of sep (sep not empty).
SplitFrom(s, sep, start) ==
    IF \E k \in start..Len(s) : MatchAt(s, k, sep)
    THEN LET j == CHOOSE k \in start..Len(s) :
                      /\ MatchAt(s, k, sep)
                      /\ \A m \in start..(k - 1) : ~MatchAt(s, m, sep)
         IN  <<SubSeq(s, start, j - 1)>> \o SplitFrom(s, sep, j + Len(sep))
    ELSE <<SubSeq(s, start, Len(s))>>

\* s.split(sep)
Split(s, sep) == SplitFrom(s, sep, 1)

RECURSIVE DigitsOf(_)
\* str(n) for n >= 0
DigitsOf(n) ==
    LET d == <<"0", "1", "2", "3", "4", "5", "6", "7", "8", "9">>
    IN  IF n < 10 THEN <<d[n + 1]>> ELSE DigitsOf(n \div 10) \o <<d[(n % 10) + 1]>>

-----------------------------------------------------------------------------
(* split_text_into_chunks, src/app.py:52-66 *)

\* The budget the click handler passes (src/app.py:283; the default of line 52).
MAX_CHARS == 12000

\* Loop body, lines 59-63, `<=` written for `<`.
ChunkStepLe(st, para, max_chars) ==
    IF Len(st.current_chunk) + Len(para) <= max_chars
    THEN [st EXCEPT !.current_chunk = @ \o para \o <<NL>>]
    ELSE [chunks |-> Append(st.chunks, st.current_chunk),
          current_chunk |-> para \o <<NL>>]

\* One iteration of the loop of lines 58-63 on the pair (chunks, current_chunk).
ChunkStep(st, para, max_chars) ==
    IF Len(st.current_chunk) + Len(para) < max_chars
    THEN [st EXCEPT !.current_chunk = @ \o para \o <<NL>>]
    ELSE [chunks |-> Append(st.chunks, st.current_chunk),
          current_chunk |-> para \o <<NL>>]

RECURSIVE ChunkLoop(_, _, _)
\* The for loop of lines 58-63 over the paragraphs left.
ChunkLoop(st, paragraphs, max_chars) ==
    IF paragraphs = <<>> THEN st
    ELSE ChunkLoop(ChunkStep(st, Head(paragraphs), max_chars),
                   Tail(paragraphs), max_chars)

\* Lines 64-65 without the flush of the last accumulator.
ChunkFlushNone(st) == st.chunks

\* Lines 64-65: the last accumulator is appended when it is not empty.
ChunkFlush(st) ==
    IF st.current_chunk # <<>> THEN Append(st.chunks, st.current_chunk)
    ELSE st.chunks

split_text_into_chunks(text, max_chars) ==
    ChunkFlush(ChunkLoop([chunks |-> <<>>, current_chunk |-> <<>>],
                         Split(text, <<NL>>), max_chars))

-----------------------------------------------------------------------------
(* repair_json, src/app.py:68-79 *)

\* The backquote character U+0060, which a TLA+ string literal cannot hold.
BACKQUOTE == "^"
FENCE == <<BACKQUOTE, BACKQUOTE, BACKQUOTE>>
FENCE_JSON == FENCE \o <<"j", "s", "o", "n">>

\* Length of the run of whitespace of s that starts at position k.
WsRun(s, k) ==
    IF k > Len(s) \/ s[k] \notin Whitespace THEN 0
    ELSE IF \A j \in k..Len(s) : s[j] \in Whitespace THEN Len(s) - k + 1
    ELSE (CHOOSE j \in k..Len(s) :
              /\ s[j] \notin Whitespace
              /\ \A m \in k..(j - 1) : s[m] \in Whitespace) - k

\* Length of the match of the pattern of line 72 at position k of s, 0 for none.
\* The first alternative takes the whitespace that follows greedily; the
\* second (a fence, \s*, $) matches only when nothing but whitespace follows to the end.
FenceMatchLen(s, k) ==
    IF MatchAt(s, k, FENCE_JSON)
    THEN Len(FENCE_JSON) + WsRun(s, k + Len(FENCE_JSON))
    ELSE IF MatchAt(s, k, FENCE)
            /\ \A j \in (k + Len(FENCE))..Len(s) : s[j] \in Whitespace
    THEN Len(s) - k + 1
    ELSE 0

RECURSIVE SubFencesFrom(_, _)
\* re.sub of line 72 on s from position k: matches are found
\* left to right, each search starting where the last match ended.
SubFencesFrom(s, k) ==
    IF k > Len(s) THEN <<>>
    ELSE LET n == FenceMatchLen(s, k)
         IN  IF n > 0 THEN SubFencesFrom(s, k + n)
             ELSE <<s[k]>> \o SubFencesFrom(s, k + 1)

\* Line 72.
SubFences(s) == SubFencesFrom(s, 1)

\* Lines 74-78, taken when the text does not end with "]".
CloseJson(s) ==
    LET a == RStrip(RStripSet(s, {","}))
        b == IF Count(a, "\"") % 2 # 0 THEN a \o <<"\"">> ELSE a
        c == IF Count(b, "{") > Count(b, "}") THEN b \o <<"}">> ELSE b
    IN  c \o <<"]">>

repair_json(x) ==
    LET s == Strip(SubFences(Strip(x)))
    IN  IF ~EndsWith(s, <<"]">>) THEN CloseJson(s) ELSE s

-----------------------------------------------------------------------------
(* json.loads on the texts of the model: strings without escapes, objects  *)
(* and arrays; any other value start is a decode error, as is text after   *)
(* the value.  A value is [t |-> "str" | "obj" | "arr", v |-> ...]; an     *)
(* object's v is its sequence of <<key, value>> items in insertion order.  *)
(* A parse result is [ok |-> BOOLEAN, val |-> value, pos |-> next index].  *)

JsonWs == {" ", "\n", "\t", "\r"}
ControlChars == {"\n", "\t", "\r"}
Fail == [ok |-> FALSE, val |-> <<>>, pos |-> 0]

\* First position >= k of s that holds no JSON whitespace.
SkipWs(s, k) ==
    IF \A j \in k..Len(s) : s[j] \in JsonWs THEN Len(s) + 1
    ELSE CHOOSE j \in k..Len(s) :
             /\ s[j] \notin JsonWs
             /\ \A m \in k..(j - 1) : s[m] \in JsonWs

\* py_scanstring: s[k - 1] is the opening quote; a control character before
\* the closing quote is an error (strict mode), as is a missing quote.
ScanString(s, k) ==
    IF ~\E j \in k..Len(s) : s[j] = "\"" THEN Fail
    ELSE LET e == CHOOSE j \in k..Len(s) :
                      s[j] = "\"" /\ \A m \in k..(j - 1) : s[m] # "\""
         IN  IF \E m \in k..(e - 1) : s[m] \in ControlChars \/ s[m] = "\\"
             THEN Fail
             ELSE [ok |-> TRUE,
                   val |-> [t |-> "str", v |-> SubSeq(s, k, e - 1)],
                   pos |-> e + 1]

\* dict[key] = value on the item sequence.
SetItem(items, key, value) ==
    IF \E n \in 1..Len(items) : items[n][1] = key
    THEN [n \in 1..Len(items) |->
              IF items[n][1] = key THEN <<key, value>> ELSE items[n]]
    ELSE Append(items, <<key, value>>)

RECURSIVE ScanOnce(_, _), ObjectItems(_, _, _), ArrayItems(_, _, _)

\* JSONObject after the key's opening quote at k - 1: key, ':', value, then
\* '}' or ',' and the next key.
ObjectItems(s, k, items) ==
    LET key == ScanString(s, k)
    IN  IF ~key.ok THEN Fail
        ELSE LET c == SkipWs(s, key.pos)
             IN  IF c > Len(s) \/ s[c] # ":" THEN Fail
                 ELSE LET val == ScanOnce(s, SkipWs(s, c + 1))
                      IN  IF ~val.ok THEN Fail
                          ELSE LET n == SkipWs(s, val.pos)
                                   got == SetItem(items, key.val.v, val.val)
                               IN  IF n > Len(s) THEN Fail
                                   ELSE IF s[n] = "}"
                                   THEN [ok |-> TRUE,
                                         val |-> [t |-> "obj", v |-> got],
                                         pos |-> n + 1]
                                   ELSE IF s[n] # "," THEN Fail
                                   ELSE LET q == SkipWs(s, n + 1)
                                        IN  IF q > Len(s) \/ s[q] # "\""
                                            THEN Fail
                                            ELSE ObjectItems(s, q + 1, got)

\* JSONArray from the first value at k: value, then ']' or ',' and a value.
ArrayItems(s, k, items) ==
    LET val == ScanOnce(s, k)
    IN  IF ~val.ok THEN Fail
        ELSE LET n == SkipWs(s, val.pos)
                 got == Append(items, val.val)
             IN  IF n > Len(s) THEN Fail
                 ELSE IF s[n] = "]"
                 THEN [ok |-> TRUE, val |-> [t |-> "arr", v |-> got],
                       pos |-> n + 1]
                 ELSE IF s[n] # "," THEN Fail
                 ELSE ArrayItems(s, SkipWs(s, n + 1), got)

\* scan_once: the value that starts at position k.
ScanOnce(s, k) ==
    IF k > Len(s) THEN Fail
    ELSE IF s[k] = "\"" THEN ScanString(s, k + 1)
    ELSE IF s[k] = "{"
    THEN LET q == SkipWs(s, k + 1)
         IN  IF q > Len(s) THEN Fail
             ELSE IF s[q] = "}"
             THEN [ok |-> TRUE, val |-> [t |-> "obj", v |-> <<>>], pos |-> q + 1]
             ELSE IF s[q] # "\"" THEN Fail
             ELSE ObjectItems(s, q + 1, <<>>)
    ELSE IF s[k] = "["
    THEN LET q == SkipWs(s, k + 1)
         IN  IF q > Len(s) THEN Fail
             ELSE IF s[q] = "]"
             THEN [ok |-> TRUE, val |-> [t |-> "arr", v |-> <<>>], pos |-> q + 1]
             ELSE ArrayItems(s, q, <<>>)
    ELSE Fail

\* json.loads(s): not ok stands for the JSONDecodeError.
json_loads(s) ==
    LET r == ScanOnce(s, SkipWs(s, 1))
    IN  IF r.ok /\ SkipWs(s, r.pos) = Len(s) + 1 THEN r ELSE Fail

-----------------------------------------------------------------------------
(* The parse path of one chunk's answer, src/app.py:296-309 *)

ERROR_PREFIX == <<"E", "R", "R", "O", "R">>

\* Lines 303-304: what master_results.extend receives; a dict is wrapped.
Normalized(data) ==
    IF data.t = "obj" THEN <<data>>
    ELSE IF data.t = "arr" THEN data.v
    ELSE <<>>

RECURSIVE ExtendNew(_, _)
ExtendNew(master, found) ==
    IF found = <<>> THEN master
    ELSE ExtendNew(IF \E n \in 1..Len(master) : master[n] = Head(found)
                   THEN master ELSE Append(master, Head(found)),
                   Tail(found))

\* Lines 296-309 with a finding that is already in the list skipped.
ParseChunkDedup(master, raw_resp) ==
    IF ~StartsWith(raw_resp, ERROR_PREFIX)
    THEN LET data == json_loads(repair_json(raw_resp))
         IN  IF data.ok THEN ExtendNew(master, Normalized(data.val))
             ELSE master
    ELSE master

\* Lines 296-309: master_results after the answer raw_resp. An answer that
\* starts with "ERROR" is only warned about; a decode error is caught and
\* printed (line 305-307).
ParseChunk(master, raw_resp) ==
    IF ~StartsWith(raw_resp, ERROR_PREFIX)
    THEN LET data == json_loads(repair_json(raw_resp))
         IN  IF data.ok THEN master \o Normalized(data.val) ELSE master
    ELSE master

-----------------------------------------------------------------------------
(* Text extraction, src/app.py:28-50.  An uploaded file is                 *)
(* [name, ok, err, units]: name is "pdf" or "docx" (the extension of line  *)
(* 271), ok is FALSE when the reader raises, err is str(e) of the          *)
(* exception, units are the texts of the pages (extract_text(), "" for a   *)
(* page that holds an image only) or of the paragraphs.                    *)

PAGE_MARK == <<"<", "<", "<", "P", "Á", "G", "I", "N", "A", " ">>
PARA_MARK == <<"<", "<", "<", "P", "A", "R", "Á", "G", "R", "A", "F", "O",
               " ", "A", "P", "R", "O", "X", ".", " ">>
MARK_END == <<">", ">", ">">>
ERRO_PDF == <<"E", "r", "r", "o", " ", "P", "D", "F", ":", " ">>

\* Paragraphs between two approximate markers (src/app.py:47).
MARKER_EVERY == 20

RECURSIVE PdfPages(_, _, _)
\* Lines 33-36 from page index k (0-based) on.
PdfPages(pages, k, acc) ==
    IF k >= Len(pages) THEN acc
    ELSE PdfPages(pages, k + 1,
             IF pages[k + 1] # <<>>
             THEN acc \o <<NL>> \o PAGE_MARK \o DigitsOf(k + 1) \o MARK_END
                      \o <<NL>> \o pages[k + 1]
             ELSE acc)

\* Lines 30-39: the exception of the reader is caught and returned as text.
read_pdf_with_pages(file) ==
    IF file.ok THEN PdfPages(file.units, 0, <<>>)
    ELSE ERRO_PDF \o file.err

\* Lines 46-49: the text after paragraph number k (0-based) with text para.
DocxStep(text, k, para) ==
    IF Strip(para) # <<>>
    THEN (IF k % MARKER_EVERY = 0
          THEN text \o <<NL>> \o PARA_MARK \o DigitsOf(k) \o MARK_END \o <<NL>>
          ELSE text) \o para \o <<NL>>
    ELSE text

RECURSIVE DocxParas(_, _, _)
\* The loop of lines 45-49 from paragraph index k on.
DocxParas(paras, k, acc) ==
    IF k >= Len(paras) THEN acc
    ELSE DocxParas(paras, k + 1, DocxStep(acc, k, paras[k + 1]))

\* Lines 43-50, for a file Document() can open.
read_docx(file) == DocxParas(file.units, 0, <<>>)

-----------------------------------------------------------------------------
(* generate_corrected_docx, src/app.py:124-179.  A finding is a record     *)
(* [texto_detetado, sugestao] whose values are a str, None or NaN (a key   *)
(* the DataFrame filled in).  The document is its sequence of paragraphs,  *)
(* a paragraph its sequence of runs [text, red].                           *)

None == <<"None">>
NaN == <<"NaN">>

\* str(v or ''): None and "" are falsy, NaN is not and prints as "nan".
StrOrEmpty(v) ==
    IF v = None THEN <<>> ELSE IF v = NaN THEN <<"n", "a", "n">> ELSE v

\* Shortest detected text that is not used is this long (src/app.py:152).
MIN_BAD_LEN == 4

OPEN_MARK == <<"<", "<", "<">>

\* Length of the match of <<<.*?>>> at position k of s, 0 for none: the
\* nearest >>> after the <<<, with no line break in between.
MarkMatchLen(s, k) ==
    IF ~MatchAt(s, k, OPEN_MARK) THEN 0
    ELSE LET ends == {e \in (k + 3)..Len(s) :
                         /\ MatchAt(s, e, MARK_END)
                         /\ \A m \in (k + 3)..(e - 1) : s[m] # NL}
         IN  IF ends = {} THEN 0
             ELSE (CHOOSE e \in ends : \A f \in ends : e <= f) + 3 - k

RECURSIVE StripMarksFrom(_, _)
StripMarksFrom(s, k) ==
    IF k > Len(s) THEN <<>>
    ELSE LET n == MarkMatchLen(s, k)
         IN  IF n > 0 THEN StripMarksFrom(s, k + n)
             ELSE <<s[k]>> \o StripMarksFrom(s, k + 1)

\* Line 133.
StripMarks(s) == StripMarksFrom(s, 1)

RECURSIVE Matches(_, _)
\* Lines 143-153: the (bad, good) pairs of the findings found in the
\* paragraph, in the order of the findings.
Matches(paragraph, errors) ==
    IF errors = <<>> THEN <<>>
    ELSE LET bad == Strip(StrOrEmpty(Head(errors).texto_detetado))
             good == Strip(StrOrEmpty(Head(errors).sugestao))
             rest == Matches(paragraph, Tail(errors))
         IN  IF Len(bad) > MIN_BAD_LEN /\ Contains(paragraph, bad)
             THEN <<<<bad, good>>>> \o rest
             ELSE rest

\* Lines 160-161: the first of the longest matches (the sort is stable).
LongestMatch(matches) ==
    matches[CHOOSE n \in 1..Len(matches) :
                /\ \A m \in 1..Len(matches) :
                       Len(matches[m][1]) <= Len(matches[n][1])
                /\ \A m \in 1..(n - 1) :
                       Len(matches[m][1]) < Len(matches[n][1])]

\* Lines 163-174: the runs of a paragraph in which bad was found.
CorrectedRuns(paragraph, bad, good) ==
    LET parts == Split(paragraph, bad)
    IN  IF Len(parts) > 1
        THEN <<[text |-> parts[1], red |-> FALSE],
               [text |-> good, red |-> TRUE],
               [text |-> Concat(Tail(parts)), red |-> FALSE]>>
        ELSE <<[text |-> paragraph, red |-> FALSE]>>

\* Lines 141-174: the runs of one paragraph that is not blank.
ParagraphRuns(paragraph, errors) ==
    LET matches == Matches(paragraph, errors)
    IN  IF matches = <<>> THEN <<[text |-> paragraph, red |-> FALSE]>>
        ELSE LET m == LongestMatch(matches)
             IN  CorrectedRuns(paragraph, m[1], m[2])

\* Lines 133-134 and 140: the paragraphs that are written.
WrittenParagraphs(original_text) ==
    SelectSeq(Split(StripMarks(original_text), <<NL>>),
              LAMBDA q : Strip(q) # <<>>)

\* Line 130: the heading, a paragraph of one run.
HEADING == <<[text |-> <<"PTF - Versão Corrigida (IA)">>, red |-> FALSE]>>

generate_corrected_docx(original_text, errors) ==
    LET paragraphs == WrittenParagraphs(original_text)
    IN  <<HEADING>> \o [n \in 1..Len(paragraphs) |->
                            ParagraphRuns(paragraphs[n], errors)]

-----------------------------------------------------------------------------
(* Bounds of the model *)

MaxTextLen == 9        \* characters of a text given to the chunker
MaxBudget == 4         \* largest max_chars given to the chunker
MaxPieces == 5         \* pieces of an answer given to repair_json
MaxRepairs == 2        \* applications of repair_json in a row
MaxParas == 22         \* paragraphs of a document read by read_docx
MaxReconPieces == 4    \* pieces of a text given to generate_corrected_docx
MaxErrors == 2         \* findings given to generate_corrected_docx
MaxUnits == 2          \* pages or paragraphs of an uploaded file
MaxLong == 1           \* pages or paragraphs of a file that fill a chunk
ShortLine == 20        \* characters of a short page or paragraph
ShortMsg == 20         \* characters of a short exception message
LongMsg == 40          \* characters of a long exception message

\* Shortest text that is analysed (src/app.py:277).
SCAN_MIN == 50

-----------------------------------------------------------------------------
(* Values the groups of variables hold while another operation is checked *)

ChunkIdle ==
    c_text = <<>> /\ c_max_chars = 1 /\ c_chunks = <<>> /\ c_pc = "idle"

RepairIdle ==
    /\ r_raw = <<>> /\ json_str = <<>> /\ r_repairs = 0
    /\ r_data = <<>> /\ r_pc = "idle"

DocxIdle ==
    d_i = 0 /\ d_text = <<>> /\ d_last = [k |-> -1, blank |-> TRUE]

ReconIdle ==
    g_original_text = <<>> /\ g_errors = <<>> /\ g_doc = <<>> /\ g_pc = "idle"

NoFile == [name |-> "none", ok |-> TRUE, err |-> <<>>, units |-> <<>>]
EmptySession == [has_results |-> FALSE, results |-> <<>>, text_ref |-> <<>>]

RunIdle ==
    /\ pc = "off" /\ uploaded_file = NoFile /\ full_text = <<>>
    /\ chunks = <<>> /\ i = 0 /\ master_results = <<>> /\ calls = <<>>
    /\ raw_resps = <<>> /\ progress = <<>> /\ session_state = EmptySession

-----------------------------------------------------------------------------
(* split_text_into_chunks on every short text and small budget *)

ChunkInit ==
    /\ c_text \in SeqsUpTo({"a", NL}, MaxTextLen)
    /\ c_max_chars \in 1..MaxBudget
    /\ c_chunks = <<>>
    /\ c_pc = "start"
    /\ RepairIdle /\ DocxIdle /\ ReconIdle /\ RunIdle

ChunkCall ==
    /\ c_pc = "start"
    /\ c_chunks' = split_text_into_chunks(c_text, c_max_chars)
    /\ c_pc' = "done"
    /\ UNCHANGED <<c_text, c_max_chars, repairVars, docxVars, reconVars, runVars>>

SpecChunk == ChunkInit /\ [][ChunkCall]_vars

-----------------------------------------------------------------------------
(* repair_json and the parse path on answers made of a few pieces *)

\* {"a":"b  -- a record cut inside its last string
CUT_RECORD == <<"{", "\"", "a", "\"", ":", "\"", "b">>
RECORD == CUT_RECORD \o <<"\"", "}">>

AnswerPieces ==
    {<<"[">>, <<"]">>, <<"}">>, <<",">>, <<"\"">>, <<NL>>,
     FENCE, FENCE_JSON, <<"j", "s", "o", "n">>, CUT_RECORD}

RepairInit ==
    /\ r_raw \in {Concat(ps) : ps \in SeqsUpTo(AnswerPieces, MaxPieces)}
    /\ json_str = r_raw
    /\ r_repairs = 0
    /\ r_data = <<>>
    /\ r_pc = "start"
    /\ ChunkIdle /\ DocxIdle /\ ReconIdle /\ RunIdle

\* json_str = repair_json(json_str), once more.
RepairCall ==
    /\ r_pc = "start"
    /\ r_repairs < MaxRepairs
    /\ json_str' = repair_json(json_str)
    /\ r_repairs' = r_repairs + 1
    /\ UNCHANGED <<r_raw, r_data, r_pc, chunkVars, docxVars, reconVars, runVars>>

\* The parse path of the loop on the answer, master_results being empty.
ParseCall ==
    /\ r_pc = "start"
    /\ r_repairs = 0
    /\ r_data' = ParseChunk(<<>>, r_raw)
    /\ r_pc' = "parsed"
    /\ UNCHANGED <<r_raw, json_str, r_repairs, chunkVars, docxVars, reconVars, runVars>>

RepairNext == RepairCall \/ ParseCall

SpecRepair == RepairInit /\ [][RepairNext]_vars

-----------------------------------------------------------------------------
(* read_docx, paragraph by paragraph *)

ParaTexts == {<<>>, <<" ">>, <<"x">>}

DocxInit ==
    /\ d_i = 0 /\ d_text = <<>> /\ d_last = [k |-> -1, blank |-> TRUE]
    /\ ChunkIdle /\ RepairIdle /\ ReconIdle /\ RunIdle

\* One iteration of the loop of lines 45-49, on a paragraph of any text.
DocxRead ==
    /\ d_i < MaxParas
    /\ \E para \in ParaTexts :
           /\ d_text' = DocxStep(d_text, d_i, para)
           /\ d_last' = [k |-> d_i, blank |-> Strip(para) = <<>>]
    /\ d_i' = d_i + 1
    /\ UNCHANGED <<chunkVars, repairVars, reconVars, runVars>>

SpecDocx == DocxInit /\ [][DocxRead]_vars

-----------------------------------------------------------------------------
(* generate_corrected_docx on texts and findings made of a few pieces *)

BAD == <<"a", "b", "a", "b", "a">>
MARKER == OPEN_MARK \o <<"P">> \o MARK_END

ReconPieces == {BAD, <<"x">>, <<NL>>, <<" ">>, MARKER}

DetectedTexts ==
    {None, NaN, <<" ">> \o BAD \o <<NL>>, SubSeq(BAD, 1, 4), BAD \o <<"x">>}

Suggestions == {None, <<"G">>}

ReconInit ==
    /\ g_original_text \in
           {Concat(ps) : ps \in SeqsUpTo(ReconPieces, MaxReconPieces)}
    /\ g_errors \in SeqsUpTo([texto_detetado : DetectedTexts,
                              sugestao : Suggestions], MaxErrors)
    /\ g_doc = <<>>
    /\ g_pc = "start"
    /\ ChunkIdle /\ RepairIdle /\ DocxIdle /\ RunIdle

ReconCall ==
    /\ g_pc = "start"
    /\ g_doc' = generate_corrected_docx(g_original_text, g_errors)
    /\ g_pc' = "done"
    /\ UNCHANGED <<g_original_text, g_errors, chunkVars, repairVars, docxVars, runVars>>

SpecRecon == ReconInit /\ [][ReconCall]_vars

-----------------------------------------------------------------------------
(* The click on "Iniciar Analise", src/app.py:264-320 *)

UnitTexts == {<<>>, Line("a", ShortLine), Line("a", MAX_CHARS)}

\* What is uploaded: a PDF the reader raises on (with a short or a long
\* message), a Word file Document() raises on, or a readable file of a few
\* pages or paragraphs.
Uploads ==
    {[name |-> "pdf", ok |-> FALSE, err |-> Line("e", n), units |-> <<>>] :
        n \in {ShortMsg, LongMsg}}
    \cup {[name |-> "docx", ok |-> FALSE, err |-> <<>>, units |-> <<>>]}
    \cup {[name |-> nm, ok |-> TRUE, err |-> <<>>, units |-> us] :
        nm \in {"pdf", "docx"},
        us \in {u \in SeqsUpTo(UnitTexts, MaxUnits) :
                   Cardinality({k \in 1..Len(u) : Len(u[k]) >= MAX_CHARS})
                       <= MaxLong}}

\* {"a":"c"}  -- a second record
RECORD_C == <<"{", "\"", "a", "\"", ":", "\"", "c", "\"", "}">>

\* What generate_content answers: a list of two records, or a lone record
\* (which is not JSON once repair_json has closed it with "]").
Answers ==
    {<<"[">> \o RECORD \o <<",">> \o RECORD_C \o <<"]">>,
     RECORD}

\* What a call of the service does: it raises e, or it answers with text.
Outcomes ==
    {[raises |-> TRUE, text |-> <<"x">>]}
    \cup {[raises |-> FALSE, text |-> a] : a \in Answers}

ERROR_COLON == ERROR_PREFIX \o <<":", " ">>

\* Lines 216-221: the exception of the call is caught and returned as text.
analyze_chunk(outcome) ==
    IF outcome.raises THEN ERROR_COLON \o outcome.text ELSE outcome.text

Init ==
    /\ pc = "idle"
    /\ uploaded_file \in Uploads
    /\ full_text = <<>>
    /\ chunks = <<>>
    /\ i = 0
    /\ master_results = <<>>
    /\ calls = <<>>
    /\ raw_resps = <<>>
    /\ progress = <<>>
    /\ session_state = EmptySession
    /\ ChunkIdle /\ RepairIdle /\ DocxIdle /\ ReconIdle

\* Lines 268-288: the file is read, a text under 50 characters stops the
\* run (st.stop), any other is split into chunks.  Document() raising is not
\* caught: the script run ends there.
Click ==
    /\ pc = "idle"
    /\ IF uploaded_file.name = "docx" /\ ~uploaded_file.ok
       THEN pc' = "raised" /\ UNCHANGED <<full_text, chunks>>
       ELSE LET read == IF uploaded_file.name = "pdf"
                        THEN read_pdf_with_pages(uploaded_file)
                        ELSE read_docx(uploaded_file)
            IN  /\ full_text' = read
                /\ IF Len(read) < SCAN_MIN
                   THEN pc' = "stopped" /\ UNCHANGED chunks
                   ELSE /\ chunks' = split_text_into_chunks(read, MAX_CHARS)
                        /\ pc' = "loop"
    /\ i' = 0
    /\ master_results' = <<>>
    /\ UNCHANGED <<uploaded_file, calls, raw_resps, progress, session_state,
                   chunkVars, repairVars, docxVars, reconVars>>

\* Lines 291-314 with the chunk tried again after an error of the service.
AnalyzeRetryOnError ==
    /\ pc = "loop"
    /\ i < Len(chunks)
    /\ \E outcome \in Outcomes :
           LET raw_resp == analyze_chunk(outcome)
           IN  /\ calls' = Append(calls, i)
               /\ raw_resps' = Append(raw_resps, raw_resp)
               /\ master_results' = ParseChunk(master_results, raw_resp)
               /\ IF outcome.raises
                  THEN UNCHANGED <<i, progress>>
                  ELSE /\ progress' = Append(progress, <<i + 1, Len(chunks)>>)
                       /\ i' = i + 1
    /\ UNCHANGED <<pc, uploaded_file, full_text, chunks, session_state,
                   chunkVars, repairVars, docxVars, reconVars>>

\* Lines 291-314: one iteration of the loop.  i counts the chunks done
\* (enumerate's index of the next one); calls records the index of the chunk
\* passed to analyze_chunk and raw_resps what it returned, progress the
\* values given to the progress bar as <<i + 1, len(chunks)>>.
Analyze ==
    /\ pc = "loop"
    /\ i < Len(chunks)
    /\ \E outcome \in Outcomes :
           LET raw_resp == analyze_chunk(outcome)
           IN  /\ calls' = Append(calls, i)
               /\ raw_resps' = Append(raw_resps, raw_resp)
               /\ master_results' = ParseChunk(master_results, raw_resp)
    /\ progress' = Append(progress, <<i + 1, Len(chunks)>>)
    /\ i' = i + 1
    /\ UNCHANGED <<pc, uploaded_file, full_text, chunks, session_state,
                   chunkVars, repairVars, docxVars, reconVars>>

\* Lines 316-320: after the last chunk the results go to the session.
Complete ==
    /\ pc = "loop"
    /\ i = Len(chunks)
    /\ session_state' = [has_results |-> TRUE, results |-> master_results,
                         text_ref |-> full_text]
    /\ pc' = "complete"
    /\ UNCHANGED <<uploaded_file, full_text, chunks, i, master_results, calls,
                   raw_resps, progress, chunkVars, repairVars, docxVars,
                   reconVars>>

Next == Click \/ Analyze \/ Complete

Spec == Init /\ [][Next]_vars

\* The click may never come; once it has, the script runs on by itself
\* (analyze_chunk returns or raises, time.sleep(1) ends), so an iteration
\* or the final step that can be taken is taken.
FairSpec == Spec /\ WF_vars(Analyze) /\ WF_vars(Complete)

-----------------------------------------------------------------------------
(* Properties of split_text_into_chunks (SpecChunk) *)

\* A chunk that is one line and its line break.
SingleLine(chunk) ==
    chunk # <<>> /\ chunk[Len(chunk)] = NL /\ Count(chunk, NL) = 1

\* C1, as stated: the chunks, concatenated in order, are the input text.
C1_ConcatIsText ==
    c_pc = "done" => Concat(c_chunks) = c_text

\* C1, amended: the chunks, concatenated in order, are the input text
\* followed by one line break (every line, the last included, gets one).
C1_ConcatIsTextAndNewline ==
    c_pc = "done" => Concat(c_chunks) = c_text \o <<NL>>

\* A text of several lines was split into several chunks.
C1_Witness ==
    /\ c_pc = "done"
    /\ Len(c_chunks) >= 2
    /\ Count(c_text, NL) >= 2
    /\ c_text[Len(c_text)] = "a"

\* C2, as stated: every chunk is at most max_chars long, except a chunk of
\* one line whose own length (without its line break) exceeds max_chars; a
\* line exactly max_chars long is not excepted.
C2_BoundUnlessLineExceeds ==
    c_pc = "done" =>
        \A n \in 1..Len(c_chunks) :
            \/ Len(c_chunks[n]) <= c_max_chars
            \/ SingleLine(c_chunks[n]) /\ Len(c_chunks[n]) - 1 > c_max_chars

\* C2, amended: every chunk is at most max_chars long, except a chunk of
\* one line whose own length is max_chars or more; such a chunk is the line
\* and its line break.
C2_BoundUnlessLineReaches ==
    c_pc = "done" =>
        \A n \in 1..Len(c_chunks) :
            \/ Len(c_chunks[n]) <= c_max_chars
            \/ SingleLine(c_chunks[n]) /\ Len(c_chunks[n]) - 1 >= c_max_chars

\* A line exactly max_chars long came out as a chunk of its own, next to a
\* chunk of several lines that fills the budget.
C2_Witness ==
    /\ c_pc = "done"
    /\ \E n \in 1..Len(c_chunks) :
           SingleLine(c_chunks[n]) /\ Len(c_chunks[n]) - 1 = c_max_chars
    /\ \E n \in 1..Len(c_chunks) :
           Count(c_chunks[n], NL) >= 2 /\ Len(c_chunks[n]) = c_max_chars

\* C10: no chunk returned by split_text_into_chunks is the empty string.
C10_NoEmptyChunk ==
    c_pc = "done" => \A n \in 1..Len(c_chunks) : c_chunks[n] # <<>>

-----------------------------------------------------------------------------
(* Properties of repair_json and the parse path (SpecRepair) *)

\* The text is one JSON object.
IsLoneObject(x) ==
    LET d == json_loads(x) IN d.ok /\ d.val.t = "obj"

\* C3: an answer that is a lone JSON object yields, through the parse path
\* of the loop, the findings its one-element list yields: the one record.
C3_LoneObjectAsList ==
    (r_pc = "parsed" /\ IsLoneObject(r_raw)) =>
        /\ r_data = ParseChunk(<<>>, <<"[">> \o r_raw \o <<"]">>)
        /\ Len(r_data) = 1

\* C8: for a malformed text that repair_json closes into valid JSON, the
\* second application of repair_json returns what the first returned, and
\* the result ends with "]".
C8_RepairIdempotent ==
    (/\ r_repairs >= 2
     /\ ~json_loads(r_raw).ok
     /\ json_loads(repair_json(r_raw)).ok) =>
        /\ json_str = repair_json(r_raw)
        /\ EndsWith(json_str, <<"]">>)

-----------------------------------------------------------------------------
(* Property of read_docx (SpecDocx) *)

\* The marker of the block of 20 paragraphs that holds paragraph k.
BlockMarker(k) ==
    <<NL>> \o PARA_MARK \o DigitsOf((k \div MARKER_EVERY) * MARKER_EVERY)
           \o MARK_END \o <<NL>>

\* C9: a paragraph that is not blank, of index k, is preceded in the text by
\* the marker of its block, floor(k / 20) * 20.
C9_MarkerBeforeParagraph ==
    ~d_last.blank => Contains(d_text, BlockMarker(d_last.k))

-----------------------------------------------------------------------------
(* Property of generate_corrected_docx (SpecRecon) *)

\* The findings whose trimmed detected text, over 4 characters long, is in
\* the paragraph.
MatchingErrors(paragraph) ==
    {m \in 1..Len(g_errors) :
        LET bad == Strip(StrOrEmpty(g_errors[m].texto_detetado))
        IN  Len(bad) > MIN_BAD_LEN /\ Contains(paragraph, bad)}

\* The text of a paragraph of the document: its runs, in order.
RunsText(runs) == Concat([n \in 1..Len(runs) |-> runs[n].text])

\* The paragraph with the first occurrence of bad replaced by good.
FirstReplaced(paragraph, bad, good) ==
    LET k == CHOOSE j \in 1..Len(paragraph) :
                 /\ MatchAt(paragraph, j, bad)
                 /\ \A m \in 1..(j - 1) : ~MatchAt(paragraph, m, bad)
    IN  SubSeq(paragraph, 1, k - 1) \o good
            \o SubSeq(paragraph, k + Len(bad), Len(paragraph))

\* C4: a written paragraph in which exactly one finding's detected text is
\* found, however many times, comes out as prefix + suggestion + suffix,
\* prefix + detected text + suffix being the paragraph.
C4_SingleMatchReplacesFirst ==
    g_pc = "done" =>
        LET paragraphs == WrittenParagraphs(g_original_text)
        IN  \A n \in 1..Len(paragraphs) :
                Cardinality(MatchingErrors(paragraphs[n])) = 1 =>
                    LET e == g_errors[CHOOSE m \in MatchingErrors(paragraphs[n]) : TRUE]
                    IN  RunsText(g_doc[n + 1]) =
                            FirstReplaced(paragraphs[n],
                                          Strip(StrOrEmpty(e.texto_detetado)),
                                          Strip(StrOrEmpty(e.sugestao)))

-----------------------------------------------------------------------------
(* Properties of the analysis run (Spec, FairSpec) *)

\* The answer is an error of the service.
IsError(raw_resp) == StartsWith(raw_resp, ERROR_PREFIX)

\* The findings an answer holds: none for an error of the service or for a
\* text that is not JSON after repair, the records of the list otherwise.
FindingsOf(raw_resp) ==
    IF IsError(raw_resp) THEN <<>>
    ELSE LET d == json_loads(repair_json(raw_resp))
         IN  IF ~d.ok THEN <<>>
             ELSE IF d.val.t = "arr" THEN d.val.v
             ELSE <<d.val>>

\* The findings of all the answers so far, in the order of the answers.
AllFindings ==
    Concat([k \in 1..Len(raw_resps) |-> FindingsOf(raw_resps[k])])

IsPrefix(a, b) == Len(a) <= Len(b) /\ SubSeq(b, 1, Len(a)) = a

\* While the loop runs and after it, the calls of analyze_chunk are for the
\* chunks of index 0 to i - 1 in order, one answer each, with progress k/total after
\* the k-th; the run ends with every chunk called once and results stored.
LoopInv ==
    /\ pc \in {"loop", "complete"} =>
           /\ i <= Len(chunks)
           /\ calls = [k \in 1..i |-> k - 1]
           /\ Len(raw_resps) = i
           /\ progress = [k \in 1..i |-> <<k, Len(chunks)>>]
    /\ pc = "complete" =>
           /\ i = Len(chunks)
           /\ session_state.has_results

\* C5: analyze_chunk is called once per chunk, in order, never again for a
\* failed chunk, progress (i + 1)/total follows each chunk, and the loop
\* always reaches "analysis complete", whatever the chunks' outcomes.
C5_LoopCallsEachChunkOnceAndCompletes ==
    [](LoopInv) /\ ((pc = "loop") ~> (pc = "complete"))

\* A run of three chunks or more completed after an error of the service,
\* an answer that is not JSON after repair, and a valid answer.
C5_Witness ==
    /\ pc = "complete"
    /\ Len(chunks) >= 3
    /\ \E k \in 1..Len(raw_resps) : IsError(raw_resps[k])
    /\ \E k \in 1..Len(raw_resps) :
           ~IsError(raw_resps[k]) /\ ~json_loads(repair_json(raw_resps[k])).ok
    /\ \E k \in 1..Len(raw_resps) : FindingsOf(raw_resps[k]) # <<>>

\* C6: the aggregate list is the findings of the answers in chunk order and
\* within-chunk order, duplicates kept; it is stored as such at the end; it
\* only grows at its end; a failed or unparsable answer leaves it as it was.
C6_AggregateIsConcatenation ==
    /\ [](pc \in {"loop", "complete"} => master_results = AllFindings)
    /\ [](pc = "complete" => session_state.results = AllFindings)
    /\ [][IsPrefix(master_results, master_results')]_vars
    /\ [][(/\ Len(raw_resps') = Len(raw_resps) + 1
           /\ FindingsOf(raw_resps'[Len(raw_resps')]) = <<>>)
              => master_results' = master_results]_vars

\* A completed run whose list holds the same record twice, from two
\* chunks, two records of one chunk in their order, and nothing from a
\* chunk that failed.
C6_Witness ==
    /\ pc = "complete"
    /\ \E k \in 1..Len(raw_resps) : IsError(raw_resps[k])
    /\ \E k \in 1..Len(raw_resps) : Len(FindingsOf(raw_resps[k])) = 2
    /\ \E m, n \in 1..Len(master_results) :
           m < n /\ master_results[m] = master_results[n]
    /\ session_state.results = master_results

\* The file cannot be read: the PDF reader raises on it, or the text
\* extracted from it is under 50 characters.
Unreadable(file) ==
    \/ file.name = "pdf" /\ ~file.ok
    \/ /\ file.ok
       /\ Len(IF file.name = "pdf" THEN read_pdf_with_pages(file)
              ELSE read_docx(file)) < SCAN_MIN

\* C7: for a file that cannot be read the run stops before chunking,
\* analyze_chunk is never called and no results are stored.
C7_UnreadableStops ==
    Unreadable(uploaded_file) =>
        /\ pc \in {"idle", "stopped"}
        /\ chunks = <<>>
        /\ calls = <<>>
        /\ ~session_state.has_results

=============================================================================
